---- MODULE Spec2Model ----
(***************************************************************************)
(* Model of src/alert_agent/agent.py: the DGMS alert watcher.  One process *)
(* polls a page, diffs the scraped identifier map against the Known Set,   *)
(* commits the Known Set to a JSON file through a temporary file and a     *)
(* rename, and then extracts and ingests every new item in turn.  The      *)
(* process may be killed at any point and started again; the files stay.   *)
(***************************************************************************)
EXTENDS Naturals, Sequences, FiniteSets

\* ------------------------------------------------------------ input domains
Ids == {"alpha", "beta", "gamma"}          \* Document Identifiers on the page
Spellings == {"lower", "UPPER"}            \* how a page spells its file names
Records == {"rec1", "rec2"}                        \* truthy response.parsed values
None == "None"                             \* Python's None

MaxObs == 2        \* most entries of one Observed Map
MaxInit == 2       \* most identifiers in the file the first run finds
MaxCalls == 2      \* cap of the per-identifier call counters

VARIABLES
    pc,              \* position of the process in the script
    once,            \* args.once of the current run
    genai_client,    \* module-level Gemini client: TRUE = constructed
    supabase_client, \* init_supabase_client(): TRUE = constructed
    json_file,       \* the Known-Set file on disk
    tmp,             \* the mkstemp file of this process's save_known_atomic
    known,           \* main_loop: known
    found_urls,      \* main_loop: found_urls
    new_alerts,      \* main_loop: new_alerts (dict, insertion-ordered)
    new_basenames,   \* main_loop: new_basenames
    i,               \* position of "for basename, full_url in new_alerts.items()"
    extracted_data,  \* main_loop: extracted_data
    extract_calls,   \* history: get_gemini_output calls per identifier
    add_calls,       \* history: add_incident calls per identifier
    sink_arg,        \* history: the record of the iteration's add_incident call
    sink_result,     \* history: the outcome of the iteration's add_incident call
    cycle            \* history: calls made since the current cycle's fetch

vars == <<pc, once, genai_client, supabase_client, json_file, tmp, known,
          found_urls, new_alerts, new_basenames, i, extracted_data,
          extract_calls, add_calls, sink_arg, sink_result, cycle>>

\* ------------------------------------------------------------ sequences
Range(s) == {s[k] : k \in 1..Len(s)}

NoDup(s) == \A j, k \in 1..Len(s) : j # k => s[j] # s[k]

SeqsUpTo(S, n) == UNION {[1..m -> S] : m \in 0..n}

\* ------------------------------------------------------------ files
\* A file is absent or holds a text; a text is a sequence of JSON tokens.
Missing == [exists |-> FALSE, text |-> <<>>]

File(text) == [exists |-> TRUE, text |-> text]

\* json.dump(list_data, f, indent=2, ensure_ascii=False) of a list of strings
Dumps(list_data) == <<"[">> \o list_data \o <<"]">>

\* the characters of the JSON strings that are not identifiers
Chars == {"a", "b"}

\* what a JSON array of strings, or a JSON object's keys, may hold
Strings == Ids \cup Chars

Quote == "\""

\* the text is s1 ... sn between the tokens open and close
Encloses(text, open, close, S) ==
    /\ Len(text) >= 2
    /\ text[1] = open
    /\ text[Len(text)] = close
    /\ \A k \in 2..(Len(text) - 1) : text[k] \in S

\* the text is a complete JSON array of strings
IsArray(text) == Encloses(text, "[", "]", Strings)

\* the text is a complete JSON object (its keys, in order)
IsObject(text) == Encloses(text, "{", "}", Strings)

\* the text is one JSON string (its characters)
IsString(text) == Encloses(text, Quote, Quote, Chars)

\* the text is a JSON number, null, true or false
IsScalar(text) == text \in {<<"7">>, <<"null">>, <<"true">>}

Inside(text) == SubSeq(text, 2, Len(text) - 1)

\* json.load(f): the value's type and, for the iterable types, what iterating
\* it yields; "error" for a text that cannot be decoded or parsed
loads(text) ==
    IF IsArray(text) THEN [type |-> "list", items |-> Inside(text)]
    ELSE IF IsObject(text) THEN [type |-> "dict", items |-> Inside(text)]
    ELSE IF IsString(text) THEN [type |-> "str", items |-> Inside(text)]
    ELSE IF IsScalar(text) THEN [type |-> "scalar", items |-> <<>>]
    ELSE [type |-> "error", items |-> <<>>]

\* a loader that starts every process with an empty Known Set
load_known_forgets(f) == <<>>

\* a loader that takes nothing but a JSON array
load_known_strict(f) ==
    IF f.exists /\ IsArray(f.text) THEN Inside(f.text) ELSE <<>>

\* load_known once the file is open: a list is returned as it is, list(data)
\* of a dict gives its keys and of a str its characters, and list(data) of a
\* number, None or a bool raises TypeError, which "except Exception" turns
\* into [] like a decoding or parsing error
load_known(f) ==
    IF ~f.exists THEN <<>>
    ELSE LET data == loads(f.text)
         IN  IF data.type = "list" THEN data.items
             ELSE IF data.type \in {"dict", "str"} THEN data.items
             ELSE <<>>

\* ------------------------------------------------------------ change detector
\* The Observed Map: a dict, i.e. entries in insertion order with distinct keys.
Names(m) == [k \in 1..Len(m) |-> m[k].name]

\* a resolved address: the document it names and the spelling of its file
\* name, e.g. ".../alpha.pdf" and ".../ALPHA.PDF"
Urls == [doc : Ids, spelling : Spellings]

\* the key of an address: its final path segment, lower-cased, without ".pdf"
basename(url) == url.doc

\* the map built from a page that links the documents ns, all spelled sp
Page(ns, sp) ==
    LET full_url(k) == [doc |-> ns[k], spelling |-> sp]
    IN  [k \in 1..Len(ns) |-> [name |-> basename(full_url(k)), url |-> full_url(k)]]

ObservedMaps ==
    {Page(ns, sp) : ns \in {l \in SeqsUpTo(Ids, MaxObs) : NoDup(l)},
                    sp \in Spellings}

\* a detector without the membership test: everything on the page is new
NewAlertsAll(found, knownList) == found

\* a detector that puts each new entry in front of the ones found before it
RECURSIVE NewAlertsReversed(_, _)
NewAlertsReversed(found, knownList) ==
    IF found = <<>> THEN <<>>
    ELSE IF Head(found).name \notin Range(knownList)
         THEN NewAlertsReversed(Tail(found), knownList) \o <<Head(found)>>
         ELSE NewAlertsReversed(Tail(found), knownList)

RECURSIVE NewAlerts(_, _)
NewAlerts(found, knownList) ==
    IF found = <<>> THEN <<>>
    ELSE IF Head(found).name \notin Range(knownList)
         THEN <<Head(found)>> \o NewAlerts(Tail(found), knownList)
         ELSE NewAlerts(Tail(found), knownList)

ZeroCalls == [x \in Ids |-> 0]

NoCycle == [saves |-> 0, extracts |-> 0, ingests |-> 0]

\* ------------------------------------------------------------ initial state
InitFiles ==
    {Missing} \cup {File(Dumps(s)) : s \in SeqsUpTo(Ids, MaxInit)}

\* files this program did not write: empty, cut short, undecodable, and JSON
\* documents whose top level is no array
OddFiles ==
    {File(<<>>), File(<<"[", "alpha">>), File(<<"0xFF">>),
     File(<<"{", "alpha", "beta", "}">>), File(<<Quote, "a", "b", Quote>>),
     File(<<"7">>), File(<<"null">>)}

Init ==
    /\ pc = "boot"
    /\ once \in BOOLEAN
    /\ genai_client = FALSE
    /\ supabase_client = FALSE
    /\ json_file \in InitFiles
    /\ tmp = Missing
    /\ known = <<>>
    /\ found_urls = <<>>
    /\ new_alerts = <<>>
    /\ new_basenames = <<>>
    /\ i = 0
    /\ extracted_data = None
    /\ extract_calls = ZeroCalls
    /\ add_calls = ZeroCalls
    /\ sink_arg = None
    /\ sink_result = "none"
    /\ cycle = NoCycle

memory == <<known, found_urls, new_alerts, new_basenames, i, extracted_data>>
disk == <<json_file, tmp>>
clients == <<genai_client, supabase_client>>
history == <<extract_calls, add_calls, sink_arg, sink_result>>
calls == <<extract_calls, add_calls>>

\* ------------------------------------------------------------ startup
\* Module import builds the Gemini client, __main__ builds the Supabase client
\* and leaves with SystemExit(1) when there is no Gemini client.
Boot ==
    /\ pc = "boot"
    /\ \E g \in BOOLEAN, s \in BOOLEAN :
        /\ genai_client' = g
        /\ supabase_client' = s
        /\ pc' = IF g THEN "load" ELSE "exit1"
    /\ UNCHANGED <<once, memory, disk, history, cycle>>

LoadKnown ==
    /\ pc = "load"
    /\ known' = load_known(json_file)
    /\ pc' = "poll"
    /\ UNCHANGED <<once, clients, disk, found_urls, new_alerts, new_basenames,
                   i, extracted_data, history, cycle>>

\* the file exists and open(json_path, "r") raises (no permission, a
\* directory): the call is outside load_known's try, the error leaves
\* main_loop
LoadKnownOpenFails ==
    /\ pc = "load"
    /\ json_file.exists
    /\ pc' = "died"
    /\ UNCHANGED <<once, clients, disk, memory, history, cycle>>

\* ------------------------------------------------------------ main_loop
\* fetch_html raises: control is in "except Exception as e"
FetchFail ==
    /\ pc = "poll"
    /\ pc' = "fetch_error"
    /\ cycle' = NoCycle
    /\ UNCHANGED <<once, clients, disk, memory, history>>

\* a handler that sleeps and polls again also in single-shot mode
FetchErrorAlwaysSleeps ==
    /\ pc = "fetch_error"
    /\ pc' = "sleep"
    /\ UNCHANGED <<once, clients, disk, memory, history, cycle>>

\* the handler: the error is printed; "if once: break", else
\* time.sleep(interval); continue
FetchError ==
    /\ pc = "fetch_error"
    /\ pc' = IF once THEN "stopped" ELSE "sleep"
    /\ UNCHANGED <<once, clients, disk, memory, history, cycle>>

\* fetch_html and extract_pdf_names_and_urls return the page's Observed Map
FetchOk ==
    /\ pc = "poll"
    /\ found_urls' \in ObservedMaps
    /\ pc' = "detect"
    /\ cycle' = NoCycle
    /\ UNCHANGED <<once, clients, disk, known, new_alerts, new_basenames, i,
                   extracted_data, history>>

\* a loop without "if new_alerts:", which commits in every cycle
DetectAlwaysCommits ==
    /\ pc = "detect"
    /\ new_alerts' = NewAlerts(found_urls, known)
    /\ new_basenames' = Names(new_alerts')
    /\ pc' = "extend"
    /\ UNCHANGED <<once, clients, disk, known, found_urls, i, extracted_data,
                   history, cycle>>

\* the loop that fills new_alerts and new_basenames, and "if new_alerts:"
Detect ==
    /\ pc = "detect"
    /\ new_alerts' = NewAlerts(found_urls, known)
    /\ new_basenames' = Names(new_alerts')
    /\ pc' = IF new_alerts' # <<>> THEN "extend" ELSE "cycle_end"
    /\ UNCHANGED <<once, clients, disk, known, found_urls, i, extracted_data,
                   history, cycle>>

\* a loop that starts on the items with the Known Set not yet saved
ExtendThenProcess ==
    /\ pc = "extend"
    /\ known' = known \o new_basenames
    /\ i' = 1
    /\ pc' = "process"
    /\ UNCHANGED <<once, clients, disk, found_urls, new_alerts, new_basenames,
                   extracted_data, history, cycle>>

\* a loop that assigns the new identifiers to known instead of appending them
ExtendReplaces ==
    /\ pc = "extend"
    /\ known' = new_basenames
    /\ pc' = "save"
    /\ UNCHANGED <<once, clients, disk, found_urls, new_alerts, new_basenames,
                   i, extracted_data, history, cycle>>

\* a loop that appends only the first new identifier
ExtendFirstOnly ==
    /\ pc = "extend"
    /\ known' = Append(known, new_basenames[1])
    /\ pc' = "save"
    /\ UNCHANGED <<once, clients, disk, found_urls, new_alerts, new_basenames,
                   i, extracted_data, history, cycle>>

\* known.extend(new_basenames)
Extend ==
    /\ pc = "extend"
    /\ known' = known \o new_basenames
    /\ pc' = "save"
    /\ UNCHANGED <<once, clients, disk, found_urls, new_alerts, new_basenames,
                   i, extracted_data, history, cycle>>

\* what an exception that leaves main_loop, or a kill, does to the process
LoseMemory ==
    /\ known' = <<>>
    /\ found_urls' = <<>>
    /\ new_alerts' = <<>>
    /\ new_basenames' = <<>>
    /\ i' = 0
    /\ extracted_data' = None

\* ------------------------------------------------------------ save_known_atomic
SaveCalled == cycle' = [cycle EXCEPT !.saves = @ + 1]

\* a save that opens the target itself for writing, which empties it
SaveOpensTarget ==
    /\ pc = "save"
    /\ json_file' = File(<<>>)
    /\ tmp' = File(<<>>)
    /\ pc' = "save_write"
    /\ cycle' = [cycle EXCEPT !.saves = @ + 1]
    /\ UNCHANGED <<once, clients, memory, history>>

\* tempfile.mkstemp(...) creates an empty file in the target's directory
SaveMkstemp ==
    /\ pc = "save"
    /\ tmp' = File(<<>>)
    /\ pc' = "save_write"
    /\ SaveCalled
    /\ UNCHANGED <<once, clients, json_file, memory, history>>

\* mkstemp raises before the try block: nothing to clean, main_loop is left
SaveMkstempFail ==
    /\ pc = "save"
    /\ pc' = "died"
    /\ SaveCalled
    /\ LoseMemory
    /\ UNCHANGED <<once, clients, disk, history>>

\* a save that writes the cycle's new identifiers instead of the Known Set
SaveWriteNewOnly ==
    /\ pc = "save_write"
    /\ LET text == Dumps(new_basenames)
           done == Len(tmp.text)
       IN /\ done < Len(text)
          /\ tmp' = File(Append(tmp.text, text[done + 1]))
          /\ pc' = IF done + 1 = Len(text) THEN "save_move" ELSE "save_write"
    /\ UNCHANGED <<once, clients, json_file, memory, history, cycle>>

\* json.dump writes the text to the temporary file piece by piece
SaveWrite ==
    /\ pc = "save_write"
    /\ LET text == Dumps(known)
           done == Len(tmp.text)
       IN /\ done < Len(text)
          /\ tmp' = File(Append(tmp.text, text[done + 1]))
          /\ pc' = IF done + 1 = Len(text) THEN "save_move" ELSE "save_write"
    /\ UNCHANGED <<once, clients, json_file, memory, history, cycle>>

\* the "finally" block: os.remove(tmp) if it exists; a failing remove is ignored
Cleanup(removed) == tmp' = IF removed THEN Missing ELSE tmp

\* the write raises (disk full): cleanup, and the error leaves main_loop
SaveWriteFail ==
    /\ pc = "save_write"
    /\ \E removed \in BOOLEAN : Cleanup(removed)
    /\ pc' = "died"
    /\ LoseMemory
    /\ UNCHANGED <<once, clients, json_file, history, cycle>>

\* shutil.move(tmp, json_path): a rename within one directory
SaveMove ==
    /\ pc = "save_move"
    /\ json_file' = tmp
    /\ tmp' = Missing
    /\ i' = 1
    /\ pc' = "process"
    /\ UNCHANGED <<once, clients, known, found_urls, new_alerts, new_basenames,
                   extracted_data, history, cycle>>

\* a loop that catches the failed save and goes on to process the new items
SaveMoveFailIgnored ==
    /\ pc = "save_move"
    /\ \E removed \in BOOLEAN : Cleanup(removed)
    /\ i' = 1
    /\ pc' = "process"
    /\ UNCHANGED <<once, clients, json_file, known, found_urls, new_alerts,
                   new_basenames, extracted_data, history, cycle>>

\* the rename raises: cleanup, and the error leaves main_loop
SaveMoveFail ==
    /\ pc = "save_move"
    /\ \E removed \in BOOLEAN : Cleanup(removed)
    /\ pc' = "died"
    /\ LoseMemory
    /\ UNCHANGED <<once, clients, json_file, history, cycle>>

\* ------------------------------------------------------------ item processing
CurrentItem == new_alerts[i]

\* a for loop that walks the new items from the last to the first
ItemStartReversed ==
    /\ pc = "process"
    /\ i <= Len(new_alerts)
    /\ LET item == new_alerts[Len(new_alerts) + 1 - i]
       IN  /\ extract_calls[item.name] < MaxCalls
           /\ extract_calls' = [extract_calls EXCEPT ![item.name] = @ + 1]
    /\ cycle' = [cycle EXCEPT !.extracts = @ + 1]
    /\ sink_arg' = None
    /\ sink_result' = "none"
    /\ pc' = "download"
    /\ UNCHANGED <<once, clients, disk, memory, add_calls>>

\* "for basename, full_url in new_alerts.items()": the next item, and the call
\* get_gemini_output(full_url)
ItemStart ==
    /\ pc = "process"
    /\ i <= Len(new_alerts)
    /\ extract_calls[CurrentItem.name] < MaxCalls
    /\ extract_calls' = [extract_calls EXCEPT ![CurrentItem.name] = @ + 1]
    /\ cycle' = [cycle EXCEPT !.extracts = @ + 1]
    /\ sink_arg' = None
    /\ sink_result' = "none"
    /\ pc' = "download"
    /\ UNCHANGED <<once, clients, disk, memory, add_calls>>

\* the for loop is exhausted
ItemsDone ==
    /\ pc = "process"
    /\ i > Len(new_alerts)
    /\ pc' = "cycle_end"
    /\ UNCHANGED <<once, clients, disk, memory, history, cycle>>

\* get_gemini_output up to the retry loop: no client or a RequestException of
\* the download returns None; any other exception reaches main_loop's
\* "except Exception" at the item boundary
GetPdf ==
    /\ pc = "download"
    /\ \E outcome \in {"ok", "request_error", "other_error"} :
        IF ~genai_client \/ outcome = "request_error"
        THEN /\ extracted_data' = None
             /\ pc' = "extracted"
             /\ i' = i
        ELSE IF outcome = "ok"
        THEN /\ pc' = "generate"
             /\ UNCHANGED <<extracted_data, i>>
        ELSE /\ pc' = "except"
             /\ UNCHANGED <<extracted_data, i>>
    /\ UNCHANGED <<once, clients, disk, known, found_urls, new_alerts,
                   new_basenames, history, cycle>>

\* one pass of "while True": generate_content returns a truthy response.parsed
GenerateOk ==
    /\ pc = "generate"
    /\ extracted_data' \in Records
    /\ pc' = "extracted"
    /\ UNCHANGED <<once, clients, disk, known, found_urls, new_alerts,
                   new_basenames, i, history, cycle>>

\* a retry loop that gives up after a failed attempt and returns None
GenerateGivesUp ==
    /\ pc = "generate"
    /\ extracted_data' = None
    /\ pc' = "extracted"
    /\ UNCHANGED <<once, clients, disk, known, found_urls, new_alerts,
                   new_basenames, i, history, cycle>>

\* generate_content raises or response.parsed is empty: fall to sleep(5)
GenerateRetry ==
    /\ pc = "generate"
    /\ pc' = "retry_sleep"
    /\ UNCHANGED <<once, clients, disk, memory, history, cycle>>

\* sleep(5), then the next pass of "while True"
RetrySleep ==
    /\ pc = "retry_sleep"
    /\ pc' = "generate"
    /\ UNCHANGED <<once, clients, disk, memory, history, cycle>>

\* a loop that goes to the next item without handing the record to the sink
DropsRecord ==
    /\ pc = "extracted"
    /\ extracted_data # None
    /\ i' = i + 1
    /\ pc' = "process"
    /\ UNCHANGED <<once, clients, disk, known, found_urls, new_alerts,
                   new_basenames, extracted_data, history, cycle>>

\* "if extracted_data:" calls add_incident(supabase_client, extracted_data)
CallAddIncident ==
    /\ pc = "extracted"
    /\ extracted_data # None
    /\ add_calls[CurrentItem.name] < MaxCalls
    /\ add_calls' = [add_calls EXCEPT ![CurrentItem.name] = @ + 1]
    /\ sink_arg' = extracted_data
    /\ cycle' = [cycle EXCEPT !.ingests = @ + 1]
    /\ pc' = "add_incident"
    /\ UNCHANGED <<once, clients, disk, memory, extract_calls, sink_result>>

\* the else branch: "Failed to get structured data", next item
NoData ==
    /\ pc = "extracted"
    /\ extracted_data = None
    /\ i' = i + 1
    /\ pc' = "process"
    /\ UNCHANGED <<once, clients, disk, known, found_urls, new_alerts,
                   new_basenames, extracted_data, history, cycle>>

\* a handler outside the for loop: an item's error ends the cycle's items
ItemExceptAborts ==
    /\ pc = "except"
    /\ pc' = "cycle_end"
    /\ UNCHANGED <<once, clients, disk, memory, history, cycle>>

\* "except Exception as e": the error is printed, next item
ItemExcept ==
    /\ pc = "except"
    /\ i' = i + 1
    /\ pc' = "process"
    /\ UNCHANGED <<once, clients, disk, known, found_urls, new_alerts,
                   new_basenames, extracted_data, history, cycle>>

\* a sink call that is made again for the same item after a failed insert
add_incident_retries ==
    /\ pc = "add_incident"
    /\ \E outcome \in {"ok", "failed"} :
        /\ sink_result' = IF ~supabase_client THEN "noclient" ELSE outcome
        /\ i' = IF sink_result' = "failed" THEN i ELSE i + 1
        /\ pc' = IF sink_result' = "failed" THEN "extracted" ELSE "process"
    /\ UNCHANGED <<once, clients, disk, known, found_urls, new_alerts,
                   new_basenames, extracted_data, extract_calls, add_calls,
                   sink_arg, cycle>>

\* add_incident: returns at once without a client; otherwise one insert, whose
\* failure (exception or no rows returned) is printed; then the next item
add_incident ==
    /\ pc = "add_incident"
    /\ \E outcome \in {"ok", "failed"} :
        sink_result' = IF ~supabase_client THEN "noclient" ELSE outcome
    /\ i' = i + 1
    /\ pc' = "process"
    /\ UNCHANGED <<once, clients, disk, known, found_urls, new_alerts,
                   new_basenames, extracted_data, extract_calls, add_calls,
                   sink_arg, cycle>>

\* a loop that has no single-shot mode
CycleEndAlwaysSleeps ==
    /\ pc = "cycle_end"
    /\ pc' = "sleep"
    /\ UNCHANGED <<once, clients, disk, memory, history, cycle>>

\* after the items, or with none: "if once: break", else time.sleep(interval)
CycleEnd ==
    /\ pc = "cycle_end"
    /\ pc' = IF once THEN "stopped" ELSE "sleep"
    /\ UNCHANGED <<once, clients, disk, memory, history, cycle>>

\* time.sleep(interval) returns to the top of "while True".  The locals of the
\* finished iteration are dead there (each is assigned again before it is
\* read), so they take their initial values; found_urls is kept, to compare
\* the next page with.
Sleep ==
    /\ pc = "sleep"
    /\ pc' = "poll"
    /\ new_alerts' = <<>>
    /\ new_basenames' = <<>>
    /\ i' = 0
    /\ extracted_data' = None
    /\ sink_arg' = None
    /\ sink_result' = "none"
    /\ UNCHANGED <<once, clients, disk, known, found_urls, calls, cycle>>

\* ------------------------------------------------------------ the process
Ended == {"down", "died", "stopped", "exit1"}

\* the process is killed: its memory is gone, the files are as they were
Crash ==
    /\ pc \notin Ended
    /\ pc' = "down"
    /\ LoseMemory
    /\ sink_arg' = None
    /\ sink_result' = "none"
    /\ UNCHANGED <<once, clients, disk, calls, cycle>>

\* the script is started again, with its own command line.  tmp is the
\* temporary file of the running process: mkstemp gives every save a fresh
\* name, so a file left behind by an earlier process is never opened again.
Restart ==
    /\ pc \in Ended
    /\ pc' = "boot"
    /\ once' \in BOOLEAN
    /\ genai_client' = FALSE
    /\ supabase_client' = FALSE
    /\ LoseMemory
    /\ cycle' = NoCycle
    /\ tmp' = Missing
    /\ sink_arg' = None
    /\ sink_result' = "none"
    /\ UNCHANGED <<json_file, calls>>

Step ==
    \/ Boot \/ LoadKnown \/ LoadKnownOpenFails \/ FetchFail \/ FetchError \/ FetchOk \/ Detect \/ Extend
    \/ SaveMkstemp \/ SaveMkstempFail \/ SaveWrite \/ SaveWriteFail
    \/ SaveMove \/ SaveMoveFail
    \/ ItemStart \/ ItemsDone \/ GetPdf \/ GenerateOk \/ GenerateRetry
    \/ RetrySleep \/ CallAddIncident \/ NoData \/ ItemExcept \/ add_incident
    \/ CycleEnd \/ Sleep

Next == Step \/ Crash \/ Restart

Spec == Init /\ [][Next]_vars

\* The first run on a machine: no Known-Set file yet, so that every persisted
\* identifier is one this program added.
FirstRunInit == Init /\ json_file = Missing

\* The script is sequential and keeps running while it is alive; a stopped or
\* killed script is started again; a transient failure of generate_content
\* does not last for ever.
Fairness ==
    /\ WF_vars(Step)
    /\ WF_vars(Restart)
    /\ SF_vars(GenerateOk)

FairSpec == FirstRunInit /\ [][Next]_vars /\ Fairness

\* A run that finds a Known-Set file of any kind, also one that this program
\* did not write.
AnyFileInit ==
    /\ pc = "boot"
    /\ once \in BOOLEAN
    /\ genai_client = FALSE
    /\ supabase_client = FALSE
    /\ json_file \in OddFiles \cup {Missing, File(Dumps(<<"alpha">>))}
    /\ tmp = Missing
    /\ known = <<>>
    /\ found_urls = <<>>
    /\ new_alerts = <<>>
    /\ new_basenames = <<>>
    /\ i = 0
    /\ extracted_data = None
    /\ extract_calls = ZeroCalls
    /\ add_calls = ZeroCalls
    /\ sink_arg = None
    /\ sink_result = "none"
    /\ cycle = NoCycle

LoadSpec == AnyFileInit /\ [][Next]_vars

\* ------------------------------------------------------------ vocabulary
\* the identifiers a reader of the Known-Set file finds in it
Persisted == Range(load_known(json_file))

\* an extraction or an ingestion of the current item is in progress
InItem == {"download", "generate", "retry_sleep", "extracted", "except",
           "add_incident"}

IsPrefix(s, t) == Len(s) <= Len(t) /\ SubSeq(t, 1, Len(s)) = s

\* ------------------------------------------------------------ C1
\* C1 (commit-before-process): whenever the item loop of a cycle has been
\* entered, every new identifier of the cycle is in the persisted Known Set,
\* the cycle's save has been made, and the identifier whose extraction or
\* ingestion is in progress is persisted, whatever the extraction outcomes.
C1_CommitBeforeProcess ==
    /\ pc \in InItem \cup {"process"} =>
        /\ new_alerts # <<>>
        /\ Range(new_basenames) \subseteq Persisted
        /\ cycle.saves = 1
    /\ pc \in InItem =>
        /\ CurrentItem.name \in Persisted
        /\ extract_calls[CurrentItem.name] > 0

\* two new items, the first one's extraction failing again and again
C1_Witness ==
    /\ pc = "retry_sleep"
    /\ Len(new_alerts) = 2
    /\ i = 1
    /\ Range(new_basenames) \subseteq Persisted

\* ------------------------------------------------------------ C2
\* C2 (no duplicate re-ingestion): over all runs, kills and restarts,
\* get_gemini_output and add_incident are each called at most once per
\* identifier; a call is made only for a new item of the running cycle; and
\* detection never reports an identifier of the persisted Known Set as new.
C2_NoDuplicateIngestion ==
    /\ [](\A x \in Ids : extract_calls[x] <= 1 /\ add_calls[x] <= 1)
    /\ [][\A x \in Ids :
            /\ extract_calls'[x] # extract_calls[x] =>
                  extract_calls[x] = 0 /\ x \in Range(new_basenames)
            /\ add_calls'[x] # add_calls[x] =>
                  add_calls[x] = 0 /\ x \in Range(new_basenames)
            /\ (pc = "detect" /\ x \in Persisted) =>
                  x \notin Range(new_basenames')]_vars

\* an identifier ingested in an earlier cycle is on the page again and is not
\* among the new items: the cycle extracts nothing
C2_Witness ==
    /\ pc = "cycle_end"
    /\ \E x \in Ids :
        /\ add_calls[x] = 1
        /\ x \in Range(Names(found_urls))
        /\ x \notin Range(new_basenames)
        /\ cycle.extracts = 0

\* ------------------------------------------------------------ C3
\* the item of identifier x is given up: its extraction returned None or raised
Skipped(x) ==
    /\ pc \in {"extracted", "except"}
    /\ CurrentItem.name = x
    /\ pc = "extracted" => extracted_data = None

\* the cycle's commit has just been made and x is one of its identifiers
Committed(x) ==
    /\ pc = "process"
    /\ i = 1
    /\ x \in Range(new_basenames)
    /\ x \in Persisted

\* C3 as stated (no data loss): every identifier in the persisted Known Set
\* eventually has a record passed to add_incident.
C3_NoDataLoss_Original ==
    \A x \in Ids : (x \in Persisted) ~> (add_calls[x] >= 1)

\* C3 as amended: every identifier a cycle commits eventually has a record
\* passed to add_incident, unless the process is killed first or the item is
\* given up because its extraction returned None or raised.
C3_NoDataLoss ==
    \A x \in Ids : Committed(x) ~> (add_calls[x] >= 1 \/ pc = "down" \/ Skipped(x))

\* the second of two committed items is ingested after the first one's
\* extraction had to be retried
C3_Witness ==
    /\ pc = "add_incident"
    /\ i = 2
    /\ Len(new_alerts) = 2
    /\ add_calls[new_alerts[2].name] = 1
    /\ add_calls[new_alerts[1].name] = 1
    /\ new_alerts[2].name \in Persisted

\* ------------------------------------------------------------ C4
\* C4 (the Known Set is monotone): every step that leaves the process running
\* keeps the in-memory Known Set as a prefix of the new one, and every step,
\* a save, a kill or a restart included, keeps the persisted Known Set as a
\* prefix of the new one.
C4_KnownMonotone ==
    [][/\ (pc \notin Ended /\ pc' \notin Ended) => IsPrefix(known, known')
       /\ IsPrefix(load_known(json_file), load_known(json_file'))]_vars

\* a commit of one new identifier has grown a persisted set of two to three
C4_Witness ==
    /\ pc = "process"
    /\ Len(load_known(json_file)) = 3
    /\ Len(new_basenames) = 1
    /\ extract_calls # ZeroCalls

\* ------------------------------------------------------------ C5
\* C5 (atomic persistence): every step leaves the Known-Set file as it was or
\* replaces it by the complete text of the Known Set being saved; a kill
\* leaves it as it was, also between the temporary write and the rename.
C5_AtomicPersistence ==
    [][/\ json_file' = json_file \/ json_file' = File(Dumps(known))
       /\ pc' = "down" => json_file' = json_file]_vars

\* killed after the temporary file was written and before the rename
C5_Witness ==
    /\ pc = "down"
    /\ tmp.exists
    /\ IsArray(tmp.text)
    /\ tmp # json_file
    /\ load_known(tmp) # load_known(json_file)

\* ------------------------------------------------------------ C6
\* C6 (no duplicates in the Known Set): a step from a state whose in-memory
\* and persisted Known Sets are free of repetitions leads to such a state
\* (loading included, so a repetition-free file gives a repetition-free run),
\* and the identifiers an extend appends were absent before it.
C6_NoDuplicates ==
    [][/\ (NoDup(known) /\ NoDup(load_known(json_file))) =>
             (NoDup(known') /\ NoDup(load_known(json_file')))
       /\ (pc = "extend" /\ pc' = "save") =>
             /\ Range(known) \cap Range(new_basenames) = {}
             /\ NoDup(new_basenames)
             /\ known' = known \o new_basenames]_vars

\* an identifier processed before is on the page again next to a new one,
\* and the committed Known Set holds each once
C6_Witness ==
    /\ pc = "process"
    /\ NoDup(known)
    /\ NoDup(load_known(json_file))
    /\ Len(known) = 3
    /\ \E x \in Range(Names(found_urls)) : x \notin Range(new_basenames)
    /\ new_basenames # <<>>

\* ------------------------------------------------------------ C7
PositionIn(m, n) == CHOOSE k \in 1..Len(m) : m[k].name = n

\* C7 (Change Detector result): the detection step yields the page's entries
\* whose key is not in the Known Set, each with its address, in the page's
\* order, new_basenames being their keys; it changes neither the Known Set
\* nor the Observed Map.
C7_ChangeDetector ==
    [][(pc = "detect" /\ pc' \in {"extend", "cycle_end"}) =>
        /\ Range(new_basenames') = Range(Names(found_urls)) \ Range(known)
        /\ Range(new_alerts') \subseteq Range(found_urls)
        /\ new_basenames' = Names(new_alerts')
        /\ NoDup(new_basenames')
        /\ \A j, k \in 1..Len(new_alerts') :
              j < k => PositionIn(found_urls, new_alerts'[j].name)
                          < PositionIn(found_urls, new_alerts'[k].name)
        /\ known' = known
        /\ found_urls' = found_urls
        /\ json_file' = json_file]_vars

\* a page of two entries with different addresses, both new to a non-empty
\* Known Set, detected in the page's order
C7_Witness ==
    /\ pc = "extend"
    /\ Len(found_urls) = 2
    /\ known # <<>>
    /\ new_alerts = found_urls
    /\ found_urls[1].url # found_urls[2].url

\* ------------------------------------------------------------ C8
\* C8 (idempotent detection): once a cycle's new items are appended to the
\* Known Set, detection on the same Observed Map finds nothing new, up to the
\* next fetch; and a fetch that returns the page of the cycle before leads to
\* an empty new-items set.
C8_IdempotentDetection ==
    /\ [](pc \in InItem \cup {"save", "save_write", "save_move", "process",
                              "cycle_end", "sleep", "poll", "stopped"}
            => NewAlerts(found_urls, known) = <<>>)
    /\ [][(pc = "poll" /\ pc' = "detect" /\ found_urls' = found_urls) =>
             NewAlerts(found_urls', known') = <<>>]_vars

\* the second of two cycles over one page: its items were processed in the
\* first, and nothing is new
C8_Witness ==
    /\ pc = "cycle_end"
    /\ Len(found_urls) = 2
    /\ new_alerts = <<>>
    /\ cycle = NoCycle
    /\ \A k \in 1..2 : extract_calls[found_urls[k].name] = 1

\* ------------------------------------------------------------ C9
\* C9 (empty detection leaves state untouched): while a cycle's new-items set
\* is empty no step changes the Known Set or the file or makes a save, an
\* extraction or an ingestion; a cycle makes at most one save, and at the end
\* of a cycle the number of saves is 1 if there were new items and 0 if not.
C9_EmptyDetection ==
    /\ [](/\ cycle.saves <= 1
          /\ pc = "cycle_end" =>
                cycle.saves = (IF new_alerts = <<>> THEN 0 ELSE 1)
          /\ (pc \in {"cycle_end", "sleep", "stopped"} /\ new_alerts = <<>>) =>
                cycle = NoCycle)
    /\ [][(/\ pc \in {"poll", "detect", "cycle_end"}
           /\ pc' \in {"detect", "cycle_end", "sleep", "stopped"}
           /\ new_alerts' = <<>>) =>
             /\ known' = known
             /\ json_file' = json_file
             /\ tmp' = tmp
             /\ cycle' = NoCycle
             /\ calls' = calls]_vars

\* an empty page in front of a non-empty Known Set
C9_Witness ==
    /\ pc = "cycle_end"
    /\ found_urls = <<>>
    /\ new_alerts = <<>>
    /\ known # <<>>
    /\ cycle = NoCycle

\* ------------------------------------------------------------ C10
\* C10 (ingestion once, no retry, no rollback): a structured record returned
\* for an item leads to one add_incident call with that record; whatever the
\* call's outcome the loop goes on to the next item without another call for
\* this one, and the identifier is still in the Known Set, in memory and on
\* disk.
C10_IngestOnce ==
    /\ [](/\ pc = "add_incident" =>
                /\ sink_arg = extracted_data
                /\ sink_arg \in Records
                /\ add_calls[CurrentItem.name] = 1
          /\ cycle.ingests <= cycle.extracts
          /\ \A x \in Ids : add_calls[x] <= extract_calls[x])
    /\ [][/\ (pc = "extracted" /\ extracted_data # None /\ pc' # "down") =>
                /\ pc' = "add_incident"
                /\ add_calls'[CurrentItem.name] = 1
                /\ sink_arg' = extracted_data
          /\ (pc = "add_incident" /\ pc' # "down") =>
                /\ pc' = "process"
                /\ i' = i + 1
                /\ add_calls' = add_calls
                /\ known' = known
                /\ json_file' = json_file
                /\ CurrentItem.name \in Range(known')
                /\ CurrentItem.name \in Persisted']_vars

\* the insert for the first of two new items has failed and the loop is at
\* the second item
C10_Witness ==
    /\ pc = "process"
    /\ i = 2
    /\ Len(new_alerts) = 2
    /\ sink_result = "failed"
    /\ add_calls[new_alerts[1].name] = 1
    /\ new_alerts[1].name \in Range(known) \cap Persisted

\* ------------------------------------------------------------ C11
\* C11 (page-fetch failure): a failed fetch and its handler change neither
\* the Known Set nor the files and make no save, extraction or ingestion;
\* the handler ends the loop at once in single-shot mode and otherwise goes
\* to the sleep, which leads back to the poll with the Known Set as it was.
C11_FetchFailure ==
    /\ [](pc = "fetch_error" => cycle = NoCycle)
    /\ [][/\ (pc = "poll" /\ pc' = "fetch_error") =>
                /\ known' = known
                /\ disk' = disk
                /\ calls' = calls
          /\ (pc = "fetch_error" /\ pc' # "down") =>
                /\ pc' = (IF once THEN "stopped" ELSE "sleep")
                /\ known' = known
                /\ disk' = disk
                /\ calls' = calls
                /\ cycle' = NoCycle
          /\ (pc = "sleep" /\ pc' # "down") =>
                /\ pc' = "poll"
                /\ ~once
                /\ known' = known
                /\ disk' = disk]_vars

\* the fetch of a later cycle of a continuous run has failed
C11_Witness ==
    /\ pc = "fetch_error"
    /\ ~once
    /\ known # <<>>
    /\ found_urls # <<>>
    /\ \E x \in Ids : add_calls[x] = 1

\* ------------------------------------------------------------ C12
\* C12 (per-item error containment): an error of one item is handled by
\* going to the next item with the loop's state intact; at the end of a cycle
\* every new item has had its extraction call; and after an item's error or a
\* failed insert the loop reaches the sleep or the stop, unless it is killed.
C12_ErrorContainment ==
    /\ [](pc = "cycle_end" => cycle.extracts = Len(new_alerts))
    /\ [][(pc = "except" /\ pc' # "down") =>
             /\ pc' = "process"
             /\ i' = i + 1
             /\ new_alerts' = new_alerts
             /\ known' = known
             /\ disk' = disk]_vars
    /\ (pc = "except" \/ sink_result = "failed")
          ~> (pc \in {"sleep", "stopped", "down"})

\* the first of two new items has raised
C12_Witness ==
    /\ pc = "except"
    /\ i = 1
    /\ Len(new_alerts) = 2

\* ---------------------------------------------------------------------------
\* C13  Loading the Known Set never raises: a file that is missing, cannot be
\* opened, cannot be decoded or is not valid JSON gives an empty Known Set and
\* the run goes on to its first poll.
\* ---------------------------------------------------------------------------
Unusable(f) == ~f.exists \/ loads(f.text).type = "error"

C13_LoadNeverRaises ==
    [][(pc = "load" /\ pc' # "down")
         => /\ pc' = "poll"
            /\ Unusable(json_file) => known' = <<>>]_vars

\* ---------------------------------------------------------------------------
\* C14  (as the code has it) A persisted text that parses to a JSON array is
\* the Known Set, element by element; a JSON object loads as its keys in
\* order and a JSON string as its characters; every other content (number,
\* null, boolean, unparsable text, no file) loads as the empty Known Set.
\* ---------------------------------------------------------------------------
C14_LoadResult ==
    [][(pc = "load" /\ pc' = "poll")
         => IF ~json_file.exists THEN known' = <<>>
            ELSE LET text == json_file.text
                 IN  /\ IsArray(text) => Dumps(known') = text
                     /\ IsObject(text) => <<"{">> \o known' \o <<"}">> = text
                     /\ IsString(text) => <<Quote>> \o known' \o <<Quote>> = text
                     /\ ~(IsArray(text) \/ IsObject(text) \/ IsString(text))
                          => known' = <<>>]_vars

\* C14 as the specification words it: whatever is not an array is empty
C14_NonArrayIsEmpty ==
    [][(pc = "load" /\ pc' = "poll" /\ json_file.exists)
         => /\ IsArray(json_file.text) => Dumps(known') = json_file.text
            /\ ~IsArray(json_file.text) => known' = <<>>]_vars

\* a JSON object was loaded and its keys are the Known Set of a run that has
\* gone on to commit another alert after them
C14_Witness ==
    /\ pc = "process"
    /\ Len(known) = 3
    /\ SubSeq(known, 1, 2) = <<"alpha", "beta">>
    /\ json_file.text = Dumps(known)

\* ---------------------------------------------------------------------------
\* C15  Configuration failures are fatal at startup: main_loop runs (loads,
\* polls, commits, processes) only with both the extraction client and the
\* ingestion sink constructed; without either the process ends at startup.
\* ---------------------------------------------------------------------------
InMainLoop == pc \notin {"boot", "exit1", "down"}

C15_ConfigFatal ==
    /\ InMainLoop => genai_client /\ supabase_client
    /\ pc = "exit1" => ~(genai_client /\ supabase_client)

\* ---------------------------------------------------------------------------
\* C16  (as the code has it) Once the document is downloaded the extraction
\* call never gives up: a failed or empty model call is followed by the fixed
\* delay and another attempt, and the call returns only with a structured
\* record.  A 'no result' return comes only from the download step (failed
\* download), never from the retry loop.
\* ---------------------------------------------------------------------------
C16_RetryForever ==
    [][/\ (pc = "generate" /\ pc' # "down")
         => \/ pc' = "retry_sleep" /\ extracted_data' = extracted_data
            \/ pc' = "extracted" /\ extracted_data' \in Records
       /\ (pc = "retry_sleep" /\ pc' # "down")
         => pc' = "generate" /\ i' = i /\ calls' = calls
       /\ (pc # "extracted" /\ pc' = "extracted" /\ extracted_data' = None)
         => pc = "download"]_vars

\* C16 as the specification words it: the loop never sees 'no result'
C16_NeverNoResult == pc = "extracted" => extracted_data \in Records

\* the second item's extraction is waiting to retry after a failed attempt,
\* the first item's call having returned a record
C16_Witness ==
    /\ pc = "retry_sleep"
    /\ i = 2
    /\ extracted_data \in Records
    /\ cycle.ingests = 1

\* ---------------------------------------------------------------------------
\* C17  (as the code has it) Known-Set write failure: when save_known_atomic
\* fails the error leaves the loop, the target file keeps its previous
\* content, no extraction or ingestion call has been or is made for the new
\* items of that cycle, and the temporary file is removed unless its removal
\* fails too, in which case it stays as it was.  The loop goes on to the new
\* items only when the target holds the new Known Set.
\* ---------------------------------------------------------------------------
Saving == pc \in {"save", "save_write", "save_move"}

C17_WriteFailure ==
    [][/\ (Saving /\ pc' \notin {"down", "save_write", "save_move"})
         => \/ pc' = "died"
            \/ pc' = "process" /\ json_file' = File(Dumps(known))
       /\ (Saving /\ pc' = "died")
         => /\ json_file' = json_file
            /\ tmp' \in {Missing, tmp}
            /\ calls' = calls
            /\ cycle'.extracts = 0 /\ cycle'.ingests = 0]_vars

\* C17 as the specification words it: the temporary file is always removed
C17_TmpRemoved ==
    [][(Saving /\ pc' = "died")
         => tmp' = Missing /\ json_file' = json_file /\ calls' = calls]_vars

\* the rename failed on the second commit: the target still holds the first
\* commit's content, and the fully written temporary file could not be removed
C17_Witness ==
    /\ pc = "died"
    /\ json_file = File(Dumps(<<"alpha">>))
    /\ tmp = File(Dumps(<<"alpha", "beta">>))
    /\ add_calls["beta"] = 0

\* ---------------------------------------------------------------------------
\* C18  Strictly sequential, ordered item processing: the new items of a cycle
\* are handled one at a time in the Observed Map's order; the extraction of an
\* item starts only at the head of the for loop, which is reached again only
\* when the extraction and the ingestion (if any) of the item before it have
\* returned or failed; the next fetch starts only after a sleep, which follows
\* the end of the items.
\* ---------------------------------------------------------------------------
InOrder(sub, seq) ==
    \A a, b \in 1..Len(sub) :
        a < b => \E p, q \in 1..Len(seq) :
                    p < q /\ seq[p] = sub[a] /\ seq[q] = sub[b]

C18_Sequential ==
    /\ [](pc \in InItem => i \in 1..Len(new_alerts) /\ cycle.extracts = i)
    /\ [](pc = "process" => cycle.extracts = i - 1 /\ cycle.ingests <= i - 1)
    /\ [](pc \in InItem \cup {"process"} => InOrder(new_alerts, found_urls))
    /\ [][/\ extract_calls' # extract_calls
            => /\ pc = "process" /\ pc' = "download" /\ i' = i
               /\ extract_calls' =
                    [extract_calls EXCEPT ![new_alerts[i].name] = @ + 1]
          /\ add_calls' # add_calls
            => /\ pc = "extracted" /\ pc' = "add_incident" /\ i' = i
               /\ add_calls' = [add_calls EXCEPT ![new_alerts[i].name] = @ + 1]
          /\ (pc # "process" /\ pc' = "process")
            => \/ pc = "save_move" /\ i' = 1
               \/ pc \in {"extracted", "add_incident", "except"} /\ i' = i + 1
          /\ (pc \in InItem /\ pc' \notin Ended)
            => new_alerts' = new_alerts /\ pc' \in InItem \cup {"process"}
          /\ (pc # "poll" /\ pc' = "poll") => pc \in {"load", "sleep"}
          /\ (pc # "sleep" /\ pc' = "sleep")
            => pc \in {"cycle_end", "detect", "fetch_error"}]_vars

\* the second new item's document is being downloaded after the first item's
\* record was handed to the sink
C18_Witness ==
    /\ pc = "download"
    /\ Len(new_alerts) = 2
    /\ i = 2
    /\ extract_calls[new_alerts[1].name] = 1
    /\ add_calls[new_alerts[1].name] = 1
    /\ extract_calls[new_alerts[2].name] = 1
    /\ add_calls[new_alerts[2].name] = 0

\* ---------------------------------------------------------------------------
\* C19  Single-shot termination: a single-shot run never sleeps, polls once
\* (a poll starts only after the load or after a sleep), commits at most once,
\* and, every extraction and ingestion call returning, ends STOPPED with all
\* new items handled unless it is killed or dies of an error; a continuous
\* run never reaches STOPPED, and after the items (or with none) it sleeps and
\* then polls again.
\* ---------------------------------------------------------------------------
C19_SingleShot ==
    /\ [](once => pc # "sleep")
    /\ [](~once => pc # "stopped")
    /\ [](pc = "stopped"
            => cycle.saves <= 1 /\ cycle.extracts = Len(new_alerts))
    /\ [][/\ (pc # "poll" /\ pc' = "poll")
             => pc = "load" \/ (pc = "sleep" /\ ~once)
          /\ (pc = "cycle_end" /\ pc' # "down")
             => pc' = (IF once THEN "stopped" ELSE "sleep")]_vars
    /\ (once /\ pc = "poll") ~> (pc \in {"stopped", "died", "down"})
    /\ (~once /\ pc = "cycle_end") ~> (pc \in {"poll", "down"})

\* a single-shot run has stopped after one commit and two handled items
C19_Witness ==
    /\ pc = "stopped"
    /\ once
    /\ cycle.saves = 1
    /\ cycle.extracts = 2
    /\ Len(new_alerts) = 2

\* ---------------------------------------------------------------------------
\* C20  Memory/disk agreement: starting from a missing file or a valid JSON
\* array, whenever the loop is about to poll, detecting, processing an item,
\* at the end of a cycle, sleeping or stopped, the persisted file is the
\* serialised in-memory Known Set (no file only with an empty Known Set);
\* while the commit is under way, and only then, memory is ahead of the file
\* by exactly the cycle's new identifiers.
\* ---------------------------------------------------------------------------
Agree == IF json_file.exists THEN json_file.text = Dumps(known)
                             ELSE known = <<>>

C20_Agreement ==
    /\ pc \in InItem \cup {"poll", "fetch_error", "detect", "extend", "process",
                           "cycle_end", "sleep", "stopped"}
         => Agree
    /\ Saving
         => /\ ~Agree
            /\ new_basenames # <<>>
            /\ \E old \in SeqsUpTo(Ids, Len(known)) :
                 /\ known = old \o new_basenames
                 /\ IF json_file.exists THEN json_file.text = Dumps(old)
                                         ELSE old = <<>>

\* the Known Set held one identifier, the cycle's commit added a second, and
\* while that item is in extraction the file holds both
C20_Witness ==
    /\ pc = "generate"
    /\ Len(new_alerts) = 1
    /\ Len(known) = 2
    /\ known[2] = new_alerts[1].name
    /\ json_file = File(Dumps(known))


====
